---- MODULE Spec2Model ----
(***************************************************************************)
(* A model of MockNavigationClient (src/src/API/mock.ts): the in-memory    *)
(* catalog of groups, sites and configs, its localStorage mirror, the      *)
(* CRUD operations, the visibility filter of the list queries and the      *)
(* import-merge (importData).                                              *)
(*                                                                         *)
(* Every operation awaits one timer and then runs its body synchronously,  *)
(* so an action is the whole body of one call.  Time is a logical clock:   *)
(* each call of a mutating operation reads `now` where the code reads      *)
(* new Date() and advances it by one.                                      *)
(*                                                                         *)
(* Values are strings and integers, on which JSON.stringify is injective:  *)
(* the persisted copy of a collection is modelled by the collection that   *)
(* was handed to localStorage.setItem.  localStorage may reach its quota,  *)
(* after which setItem throws.                                             *)
(*                                                                         *)
(* Spec runs the whole interface with a few snapshots; SpecImport runs     *)
(* importData on every snapshot of Snapshots, from more stores.            *)
(***************************************************************************)
EXTENDS Integers, Sequences, FiniteSets, TLC

\* ---------------------------------------------------------------- bounds
\* Calls of mutating operations in one run: the next-state relations stop the
\* logical clock there.
MaxClock == 2

\* ----------------------------------------------------------- input domains
Names == {"a", "b"}
Urls == {"u", "v"}
ConfigKeys == {"k"}
ConfigValues == {"1", "2"}
IdArgs == {1, 2, 3}

\* The callers whose calls may be in flight at once.
Callers == {1, 2}

VARIABLES
    mockGroups,       \* Group[]  (sequence of group records)
    mockSites,        \* Site[]   (sequence of site records)
    mockConfigs,      \* Record<string, string>
    storage,          \* localStorage: what setItem stored under each key
    storageFull,      \* localStorage.setItem throws (quota exceeded)
    isAuthenticated,  \* MockNavigationClient.isAuthenticated
    now,              \* logical clock behind new Date()
    ret,              \* the last call: operation, argument, result, setItem calls
    calls             \* per caller: the call it has in flight and where that call is

vars == <<mockGroups, mockSites, mockConfigs, storage, storageFull,
          isAuthenticated, now, ret, calls>>

\* STORAGE_KEYS
STORAGE_KEYS == [GROUPS |-> "mock_groups", SITES |-> "mock_sites", CONFIGS |-> "mock_configs"]

\* ------------------------------------------------------------- JS helpers
\* { ...a, ...b }: the fields of both, b's value where both have one.
Spread(a, b) ==
    [f \in (DOMAIN a) \cup (DOMAIN b) |-> IF f \in DOMAIN b THEN b[f] ELSE a[f]]

\* Array.prototype.findIndex, 1-based, on the set `hits` of the indexes whose
\* element passes the callback; 0 stands for JavaScript's -1.
FindIndex(hits) ==
    IF hits = {} THEN 0 ELSE CHOOSE i \in hits : \A j \in hits : i <= j

\* arr.splice(index, 1)
Splice(arr, index) ==
    [i \in 1..(Len(arr) - 1) |-> IF i < index THEN arr[i] ELSE arr[i + 1]]

\* Math.max(0, ...arr.map((x) => x.id || 0))
MaxOfIds(arr) ==
    LET ids == {arr[i].id : i \in 1..Len(arr)} \cup {0}
    IN CHOOSE m \in ids : \A x \in ids : x <= m

\* saveToStorage: setItem inside try/catch; a throwing setItem leaves the key as it was.
saveToStorage(st, key, data) ==
    IF storageFull THEN st ELSE [st EXCEPT ![key] = data]

\* The value a call leaves in ret: the operation, its argument (the snapshot
\* of importData, the id of update and delete, the groupId of getSites), how
\* it ended ("value", "null" for a returned null, "raised" for an exception
\* that left the call), what it returned, and the keys it called
\* localStorage.setItem on.
Returned(op, arg, kind, out, wrote) ==
    [op |-> op, arg |-> arg, kind |-> kind, out |-> out, wrote |-> wrote]

\* ------------------------------------------------------------------ inputs
\* The store a fresh page load finds (mockData defaults, or what an earlier
\* session saved): empty, or a public group with a public and a private site and
\* a private group with a public site.
SeedGroups ==
    << [id |-> 1, name |-> "a", is_public |-> 1, order_num |-> 0, created_at |-> 0, updated_at |-> 0],
       [id |-> 2, name |-> "b", is_public |-> 0, order_num |-> 1, created_at |-> 0, updated_at |-> 0] >>

SeedSites ==
    << [id |-> 1, group_id |-> 1, name |-> "x", url |-> "u", icon |-> "i", description |-> "d",
        notes |-> "n", is_public |-> 1, order_num |-> 0, created_at |-> 0, updated_at |-> 0],
       [id |-> 2, group_id |-> 2, name |-> "x", url |-> "u", icon |-> "i", description |-> "d",
        notes |-> "n", is_public |-> 1, order_num |-> 0, created_at |-> 0, updated_at |-> 0],
       [id |-> 3, group_id |-> 1, name |-> "x", url |-> "v", icon |-> "i", description |-> "d",
        notes |-> "n", is_public |-> 0, order_num |-> 1, created_at |-> 0, updated_at |-> 0] >>

\* createGroup's argument (a Group without id and timestamps)
GroupInputs == [name : Names, is_public : {1}, order_num : {0}]

\* updateGroup's argument (Partial<Group>)
GroupPatches == {[name |-> "b"], [is_public |-> 0], [id |-> 1]}

\* createSite's argument
SiteInputs ==
    [group_id : {1, 2}, name : {"x"}, url : {"v"}, icon : {"i"}, description : {"d"},
     notes : {"n"}, is_public : {1}, order_num : {0}]

\* updateSite's argument (Partial<Site>)
SitePatches == {[url |-> "u", group_id |-> 1], [is_public |-> 0]}

\* updateGroupOrder's / updateSiteOrder's argument
OrderLists ==
    { <<>>,
      << [id |-> 3, order_num |-> 2] >>,
      << [id |-> 2, order_num |-> 3], [id |-> 1, order_num |-> 4] >> }

\* A caller with no call in flight.
Idle == [pc |-> "idle", op |-> "", arg |-> <<>>, local |-> <<>>]

\* ------------------------------------------------------------------- Init
\* Module load (loadFromStorage, lines 38-40) and the constructor (lines
\* 60-66), on the store `seed` that localStorage holds.
Loaded(seed) ==
    /\ mockGroups = seed.groups
    /\ mockSites = seed.sites
    /\ mockConfigs = <<>>
    /\ storage = [mock_groups |-> mockGroups, mock_sites |-> mockSites, mock_configs |-> mockConfigs]
    /\ storageFull = FALSE
    /\ isAuthenticated \in BOOLEAN
    /\ now = 1
    /\ ret = Returned("init", <<>>, "value", <<>>, {})
    /\ calls = [c \in Callers |-> Idle]

\* The stores with distinct names and keys and no dangling site.
CleanStores ==
    { [groups |-> <<>>, sites |-> <<>>], [groups |-> SeedGroups, sites |-> SeedSites] }

\* Stores that an earlier session left after deleteGroup(1), and after
\* createGroup and createSite of a live name and a live (group_id, url).
LeftoverStores ==
    { [groups |-> << SeedGroups[2] >>, sites |-> SeedSites],
      [groups |-> Append(SeedGroups, [SeedGroups[1] EXCEPT !.id = 3, !.is_public = 0]),
       sites |-> Append(SeedSites, [SeedSites[1] EXCEPT !.id = 4])] }

Init == \E seed \in CleanStores : Loaded(seed)

InitImport == \E seed \in CleanStores \cup LeftoverStores : Loaded(seed)

\* ------------------------------------------------------- session and storage
\* login -> setToken
login ==
    /\ isAuthenticated' = TRUE
    /\ ret' = Returned("login", <<>>, "value", <<>>, {})
    /\ UNCHANGED <<mockGroups, mockSites, mockConfigs, storage, storageFull, now, calls>>

\* logout -> clearToken
logout ==
    /\ isAuthenticated' = FALSE
    /\ ret' = Returned("logout", <<>>, "value", <<>>, {})
    /\ UNCHANGED <<mockGroups, mockSites, mockConfigs, storage, storageFull, now, calls>>

\* The environment: the quota of localStorage runs out; from then on setItem throws.
storageFills ==
    /\ ~storageFull
    /\ storageFull' = TRUE
    /\ UNCHANGED <<mockGroups, mockSites, mockConfigs, storage, isAuthenticated, now, ret, calls>>

\* ------------------------------------------------------------ group CRUD
createGroup(group) ==
    LET newGroup == Spread(group, [id |-> MaxOfIds(mockGroups) + 1,
                                   created_at |-> now, updated_at |-> now])
        pushed == Append(mockGroups, newGroup)
    IN /\ mockGroups' = pushed
       /\ storage' = saveToStorage(storage, STORAGE_KEYS.GROUPS, pushed)
       /\ now' = now + 1
       /\ ret' = Returned("createGroup", <<>>, "value", newGroup, {STORAGE_KEYS.GROUPS})
       /\ UNCHANGED <<mockSites, mockConfigs, storageFull, isAuthenticated, calls>>

updateGroup(id, group) ==
    LET index == FindIndex({i \in 1..Len(mockGroups) : mockGroups[i].id = id})
        updated == Spread(Spread(mockGroups[index], group), [updated_at |-> now])
        groups == [mockGroups EXCEPT ![index] = updated]
    IN /\ now' = now + 1
       /\ IF index = 0
          THEN /\ ret' = Returned("updateGroup", id, "null", <<>>, {})
               /\ UNCHANGED <<mockGroups, storage>>
          ELSE /\ mockGroups' = groups
               /\ storage' = saveToStorage(storage, STORAGE_KEYS.GROUPS, groups)
               /\ ret' = Returned("updateGroup", id, "value", updated, {STORAGE_KEYS.GROUPS})
       /\ UNCHANGED <<mockSites, mockConfigs, storageFull, isAuthenticated, calls>>

\* deleteGroup without the `index === -1` return of line 206: splice(-1, 1)
\* removes the last group.
deleteGroup_SpliceUnchecked(id) ==
    LET found == FindIndex({i \in 1..Len(mockGroups) : mockGroups[i].id = id})
        index == IF found = 0 THEN Len(mockGroups) ELSE found
        groups == IF mockGroups = <<>> THEN mockGroups ELSE Splice(mockGroups, index)
    IN /\ now' = now + 1
       /\ mockGroups' = groups
       /\ storage' = saveToStorage(storage, STORAGE_KEYS.GROUPS, groups)
       /\ ret' = Returned("deleteGroup", id, "value", TRUE, {STORAGE_KEYS.GROUPS})
       /\ UNCHANGED <<mockSites, mockConfigs, storageFull, isAuthenticated, calls>>

deleteGroup(id) ==
    LET index == FindIndex({i \in 1..Len(mockGroups) : mockGroups[i].id = id})
        groups == Splice(mockGroups, index)
    IN /\ now' = now + 1
       /\ IF index = 0
          THEN /\ ret' = Returned("deleteGroup", id, "value", FALSE, {})
               /\ UNCHANGED <<mockGroups, storage>>
          ELSE /\ mockGroups' = groups
               /\ storage' = saveToStorage(storage, STORAGE_KEYS.GROUPS, groups)
               /\ ret' = Returned("deleteGroup", id, "value", TRUE, {STORAGE_KEYS.GROUPS})
       /\ UNCHANGED <<mockSites, mockConfigs, storageFull, isAuthenticated, calls>>

\* ------------------------------------------------------------- site CRUD
createSite(site) ==
    LET newSite == Spread(site, [id |-> MaxOfIds(mockSites) + 1,
                                 created_at |-> now, updated_at |-> now])
        pushed == Append(mockSites, newSite)
    IN /\ mockSites' = pushed
       /\ storage' = saveToStorage(storage, STORAGE_KEYS.SITES, pushed)
       /\ now' = now + 1
       /\ ret' = Returned("createSite", <<>>, "value", newSite, {STORAGE_KEYS.SITES})
       /\ UNCHANGED <<mockGroups, mockConfigs, storageFull, isAuthenticated, calls>>

updateSite(id, site) ==
    LET index == FindIndex({i \in 1..Len(mockSites) : mockSites[i].id = id})
        updated == Spread(Spread(mockSites[index], site), [updated_at |-> now])
        sites == [mockSites EXCEPT ![index] = updated]
    IN /\ now' = now + 1
       /\ IF index = 0
          THEN /\ ret' = Returned("updateSite", id, "null", <<>>, {})
               /\ UNCHANGED <<mockSites, storage>>
          ELSE /\ mockSites' = sites
               /\ storage' = saveToStorage(storage, STORAGE_KEYS.SITES, sites)
               /\ ret' = Returned("updateSite", id, "value", updated, {STORAGE_KEYS.SITES})
       /\ UNCHANGED <<mockGroups, mockConfigs, storageFull, isAuthenticated, calls>>

deleteSite(id) ==
    LET index == FindIndex({i \in 1..Len(mockSites) : mockSites[i].id = id})
        sites == Splice(mockSites, index)
    IN /\ now' = now + 1
       /\ IF index = 0
          THEN /\ ret' = Returned("deleteSite", id, "value", FALSE, {})
               /\ UNCHANGED <<mockSites, storage>>
          ELSE /\ mockSites' = sites
               /\ storage' = saveToStorage(storage, STORAGE_KEYS.SITES, sites)
               /\ ret' = Returned("deleteSite", id, "value", TRUE, {STORAGE_KEYS.SITES})
       /\ UNCHANGED <<mockGroups, mockConfigs, storageFull, isAuthenticated, calls>>

\* ---------------------------------------------------------------- reorder
\* The loop of updateGroupOrder / updateSiteOrder: each entry sets order_num of
\* the entity with its id, if there is one.
RECURSIVE ApplyOrders(_, _)
ApplyOrders(arr, orders) ==
    IF orders = <<>> THEN arr
    ELSE LET order == Head(orders)
             index == FindIndex({i \in 1..Len(arr) : arr[i].id = order.id})
         IN ApplyOrders(IF index = 0 THEN arr
                        ELSE [arr EXCEPT ![index].order_num = order.order_num],
                        Tail(orders))

updateGroupOrder(groupOrders) ==
    LET groups == ApplyOrders(mockGroups, groupOrders)
    IN /\ now' = now + 1
       /\ mockGroups' = groups
       /\ storage' = saveToStorage(storage, STORAGE_KEYS.GROUPS, groups)
       /\ ret' = Returned("updateGroupOrder", <<>>, "value", TRUE, {STORAGE_KEYS.GROUPS})
       /\ UNCHANGED <<mockSites, mockConfigs, storageFull, isAuthenticated, calls>>

updateSiteOrder(siteOrders) ==
    LET sites == ApplyOrders(mockSites, siteOrders)
    IN /\ now' = now + 1
       /\ mockSites' = sites
       /\ storage' = saveToStorage(storage, STORAGE_KEYS.SITES, sites)
       /\ ret' = Returned("updateSiteOrder", <<>>, "value", TRUE, {STORAGE_KEYS.SITES})
       /\ UNCHANGED <<mockGroups, mockConfigs, storageFull, isAuthenticated, calls>>

\* ---------------------------------------------------------------- configs
setConfig(key, value) ==
    LET configs == Spread(mockConfigs, [k \in {key} |-> value])
    IN /\ now' = now + 1
       /\ mockConfigs' = configs
       /\ storage' = saveToStorage(storage, STORAGE_KEYS.CONFIGS, configs)
       /\ ret' = Returned("setConfig", <<>>, "value", TRUE, {STORAGE_KEYS.CONFIGS})
       /\ UNCHANGED <<mockGroups, mockSites, storageFull, isAuthenticated, calls>>

deleteConfig(key) ==
    LET configs == [k \in (DOMAIN mockConfigs) \ {key} |-> mockConfigs[k]]
    IN /\ now' = now + 1
       /\ IF key \in DOMAIN mockConfigs
          THEN /\ mockConfigs' = configs
               /\ storage' = saveToStorage(storage, STORAGE_KEYS.CONFIGS, configs)
               /\ ret' = Returned("deleteConfig", <<>>, "value", TRUE, {STORAGE_KEYS.CONFIGS})
          ELSE /\ ret' = Returned("deleteConfig", <<>>, "value", FALSE, {})
               /\ UNCHANGED <<mockConfigs, storage>>
       /\ UNCHANGED <<mockGroups, mockSites, storageFull, isAuthenticated, calls>>

\* ----------------------------------------------------------------- import
\* `obj.f !== undefined` in the place of the condition `obj.f`: 0 passes.
Truthy_Defined(obj, f) == f \in DOMAIN obj

\* A JavaScript value used as a condition: a missing field or 0 is falsy.
Truthy(obj, f) == f \in DOMAIN obj /\ obj[f] # 0

\* groupMap.set(key, key): the foreign id recorded as if it were the live id.
MapSet_ForeignId(map, key, value) == Spread(map, [k \in {key} |-> key])

\* groupMap.set(key, value)
MapSet(map, key, value) == Spread(map, [k \in {key} |-> value])

\* ImportGroupStep with the live group looked up by the snapshot's id instead
\* of by name.
ImportGroupStep_MatchById(acc, importGroup) ==
    LET existingGroupIndex ==
            FindIndex({i \in 1..Len(acc.groups) : acc.groups[i].id = importGroup.id})
        existingGroup == acc.groups[existingGroupIndex]
        newId == MaxOfIds(acc.groups) + 1
        newGroup == Spread(importGroup, [id |-> newId, created_at |-> now, updated_at |-> now])
    IN IF existingGroupIndex > 0
       THEN [acc EXCEPT
               !.groupMap = IF Truthy(importGroup, "id") /\ Truthy(existingGroup, "id")
                            THEN MapSet(acc.groupMap, importGroup.id, existingGroup.id)
                            ELSE acc.groupMap,
               !.merged = acc.merged + 1]
       ELSE [acc EXCEPT
               !.groups = Append(acc.groups, newGroup),
               !.groupMap = IF Truthy(importGroup, "id")
                            THEN MapSet(acc.groupMap, importGroup.id, newId)
                            ELSE acc.groupMap,
               !.created = acc.created + 1]

\* One pass of the loop over data.groups (lines 378-407), on the accumulator
\* acc = [groups, groupMap, created, merged].
ImportGroupStep(acc, importGroup) ==
    LET existingGroupIndex ==
            FindIndex({i \in 1..Len(acc.groups) : acc.groups[i].name = importGroup.name})
        existingGroup == acc.groups[existingGroupIndex]
        newId == MaxOfIds(acc.groups) + 1
        newGroup == Spread(importGroup, [id |-> newId, created_at |-> now, updated_at |-> now])
    IN IF existingGroupIndex > 0
       THEN [acc EXCEPT
               !.groupMap = IF Truthy(importGroup, "id") /\ Truthy(existingGroup, "id")
                            THEN MapSet(acc.groupMap, importGroup.id, existingGroup.id)
                            ELSE acc.groupMap,
               !.merged = acc.merged + 1]
       ELSE [acc EXCEPT
               !.groups = Append(acc.groups, newGroup),
               !.groupMap = IF Truthy(importGroup, "id")
                            THEN MapSet(acc.groupMap, importGroup.id, newId)
                            ELSE acc.groupMap,
               !.created = acc.created + 1]

RECURSIVE ImportGroupPhase(_, _)
ImportGroupPhase(acc, importGroups) ==
    IF importGroups = <<>> THEN acc
    ELSE ImportGroupPhase(ImportGroupStep(acc, Head(importGroups)), Tail(importGroups))

\* ImportSiteStep without the stats.sites.skipped++ of line 416.
ImportSiteStep_SkipUncounted(acc, groupMap, importSite) ==
    LET mapped == importSite.group_id \in DOMAIN groupMap
        newGroupId == groupMap[importSite.group_id]
        existingSiteIndex ==
            FindIndex({i \in 1..Len(acc.sites) :
                          acc.sites[i].group_id = newGroupId /\ acc.sites[i].url = importSite.url})
        existingSite == acc.sites[existingSiteIndex]
        newId == MaxOfIds(acc.sites) + 1
        newSite == Spread(importSite, [id |-> newId, group_id |-> newGroupId,
                                       created_at |-> now, updated_at |-> now])
    IN IF ~mapped \/ newGroupId = 0
       THEN acc
       ELSE IF existingSiteIndex > 0
       THEN [acc EXCEPT
               !.sites[existingSiteIndex] =
                   Spread(existingSite, [name |-> importSite.name, icon |-> importSite.icon,
                                         description |-> importSite.description,
                                         notes |-> importSite.notes, updated_at |-> now]),
               !.updated = acc.updated + 1]
       ELSE [acc EXCEPT
               !.sites = Append(acc.sites, newSite),
               !.created = acc.created + 1]

\* ImportSiteStep with the live site looked up under the snapshot's group_id
\* instead of the remapped one.
ImportSiteStep_LookupByForeignId(acc, groupMap, importSite) ==
    LET mapped == importSite.group_id \in DOMAIN groupMap
        newGroupId == groupMap[importSite.group_id]
        existingSiteIndex ==
            FindIndex({i \in 1..Len(acc.sites) :
                          /\ acc.sites[i].group_id = importSite.group_id
                          /\ acc.sites[i].url = importSite.url})
        existingSite == acc.sites[existingSiteIndex]
        newId == MaxOfIds(acc.sites) + 1
        newSite == Spread(importSite, [id |-> newId, group_id |-> newGroupId,
                                       created_at |-> now, updated_at |-> now])
    IN IF ~mapped \/ newGroupId = 0
       THEN [acc EXCEPT !.skipped = acc.skipped + 1]
       ELSE IF existingSiteIndex > 0
       THEN [acc EXCEPT
               !.sites[existingSiteIndex] =
                   Spread(existingSite, [name |-> importSite.name, icon |-> importSite.icon,
                                         description |-> importSite.description,
                                         notes |-> importSite.notes, updated_at |-> now]),
               !.updated = acc.updated + 1]
       ELSE [acc EXCEPT
               !.sites = Append(acc.sites, newSite),
               !.created = acc.created + 1]

\* The site loop with `{...existingSite, ...importSite, updated_at}` as the
\* update of a matched site: every field of the incoming site is taken over.
ImportSiteStep_OverwritesMatch(acc, groupMap, importSite) ==
    LET mapped == importSite.group_id \in DOMAIN groupMap
        newGroupId == groupMap[importSite.group_id]
        existingSiteIndex ==
            FindIndex({i \in 1..Len(acc.sites) :
                          acc.sites[i].group_id = newGroupId /\ acc.sites[i].url = importSite.url})
        existingSite == acc.sites[existingSiteIndex]
        newId == MaxOfIds(acc.sites) + 1
        newSite == Spread(importSite, [id |-> newId, group_id |-> newGroupId,
                                       created_at |-> now, updated_at |-> now])
    IN IF ~mapped \/ newGroupId = 0
       THEN [acc EXCEPT !.skipped = acc.skipped + 1]
       ELSE IF existingSiteIndex > 0
       THEN [acc EXCEPT
               !.sites[existingSiteIndex] =
                   Spread(Spread(existingSite, importSite), [updated_at |-> now]),
               !.updated = acc.updated + 1]
       ELSE [acc EXCEPT
               !.sites = Append(acc.sites, newSite),
               !.created = acc.created + 1]

\* One pass of the loop over data.sites (lines 410-453), on the accumulator
\* acc = [sites, created, updated, skipped].
ImportSiteStep(acc, groupMap, importSite) ==
    LET mapped == importSite.group_id \in DOMAIN groupMap
        newGroupId == groupMap[importSite.group_id]
        existingSiteIndex ==
            FindIndex({i \in 1..Len(acc.sites) :
                          acc.sites[i].group_id = newGroupId /\ acc.sites[i].url = importSite.url})
        existingSite == acc.sites[existingSiteIndex]
        newId == MaxOfIds(acc.sites) + 1
        newSite == Spread(importSite, [id |-> newId, group_id |-> newGroupId,
                                       created_at |-> now, updated_at |-> now])
    IN IF ~mapped \/ newGroupId = 0
       THEN [acc EXCEPT !.skipped = acc.skipped + 1]
       ELSE IF existingSiteIndex > 0
       THEN [acc EXCEPT
               !.sites[existingSiteIndex] =
                   Spread(existingSite, [name |-> importSite.name, icon |-> importSite.icon,
                                         description |-> importSite.description,
                                         notes |-> importSite.notes, updated_at |-> now]),
               !.updated = acc.updated + 1]
       ELSE [acc EXCEPT
               !.sites = Append(acc.sites, newSite),
               !.created = acc.created + 1]

RECURSIVE ImportSitePhase(_, _, _)
ImportSitePhase(acc, groupMap, importSites) ==
    IF importSites = <<>> THEN acc
    ELSE ImportSitePhase(ImportSiteStep(acc, groupMap, Head(importSites)), groupMap,
                         Tail(importSites))

\* The try block of importData (lines 357-468) on the snapshot `data`: the
\* collections it leaves in memory, the statistics, and whether it threw and
\* where.  data.groups.length and data.sites.length are read before anything
\* is changed; Object.entries(data.configs) after both loops.
ImportTry(data) ==
    LET malformed == ~({"groups", "sites"} \subseteq DOMAIN data)
        g == ImportGroupPhase([groups |-> mockGroups, groupMap |-> <<>>, created |-> 0, merged |-> 0],
                              data.groups)
        s == ImportSitePhase([sites |-> mockSites, created |-> 0, updated |-> 0, skipped |-> 0],
                             g.groupMap, data.sites)
        stats == [groups |-> [total |-> Len(data.groups), created |-> g.created, merged |-> g.merged],
                  sites |-> [total |-> Len(data.sites), created |-> s.created,
                             updated |-> s.updated, skipped |-> s.skipped]]
    IN IF malformed
       THEN [thrown |-> TRUE, at |-> "stats", groups |-> mockGroups, sites |-> mockSites,
             configs |-> mockConfigs, stats |-> <<>>]
       ELSE IF "configs" \notin DOMAIN data
       THEN [thrown |-> TRUE, at |-> "configs", groups |-> g.groups, sites |-> s.sites,
             configs |-> mockConfigs, stats |-> stats]
       ELSE [thrown |-> FALSE, at |-> "", groups |-> g.groups, sites |-> s.sites,
             configs |-> Spread(mockConfigs, data.configs), stats |-> stats]

\* importData with its loops outside the try block: the exception leaves the call.
ImportReturn_Uncaught(try) ==
    IF try.thrown
    THEN [kind |-> "raised", out |-> [error |-> "TypeError"]]
    ELSE [kind |-> "value", out |-> [success |-> TRUE, stats |-> try.stats]]

\* importData with a catch block that also hands back the statistics.
ImportReturn_StatsOnFailure(try) ==
    IF try.thrown
    THEN [kind |-> "value", out |-> [success |-> FALSE, error |-> "TypeError", stats |-> try.stats]]
    ELSE [kind |-> "value", out |-> [success |-> TRUE, stats |-> try.stats]]

\* What importData hands back: the return of the try block, or that of the
\* catch block (lines 469-475).
ImportReturn(try) ==
    IF try.thrown
    THEN [kind |-> "value", out |-> [success |-> FALSE, error |-> "TypeError"]]
    ELSE [kind |-> "value", out |-> [success |-> TRUE, stats |-> try.stats]]

\* The three saves in a `finally` block: they run after a throw too.
ImportSave_AfterThrow(st, try) ==
    saveToStorage(
        saveToStorage(
            saveToStorage(st, STORAGE_KEYS.GROUPS, try.groups),
            STORAGE_KEYS.SITES, try.sites),
        STORAGE_KEYS.CONFIGS, try.configs)

\* The three saves of lines 461-463, which a throw before them skips.
ImportSave(st, try) ==
    IF try.thrown THEN st
    ELSE saveToStorage(
             saveToStorage(
                 saveToStorage(st, STORAGE_KEYS.GROUPS, try.groups),
                 STORAGE_KEYS.SITES, try.sites),
             STORAGE_KEYS.CONFIGS, try.configs)

importData(data) ==
    LET try == ImportTry(data)
        r == ImportReturn(try)
    IN /\ now' = now + 1
       /\ mockGroups' = try.groups
       /\ mockSites' = try.sites
       /\ mockConfigs' = try.configs
       /\ storage' = ImportSave(storage, try)
       /\ ret' = Returned("importData", data, r.kind, r.out,
                          IF try.thrown THEN {}
                          ELSE {STORAGE_KEYS.GROUPS, STORAGE_KEYS.SITES, STORAGE_KEYS.CONFIGS})
       /\ UNCHANGED <<storageFull, isAuthenticated, calls>>

\* --------------------------------------------------------- import inputs
\* A group and a site of a snapshot, with the snapshot's own (foreign) ids.
ImportGroup(id, name) == [id |-> id, name |-> name, is_public |-> 1, order_num |-> 7]

ImportSite(group_id, url) ==
    [id |-> 1, group_id |-> group_id, name |-> "y", url |-> url, icon |-> "j",
     description |-> "e", notes |-> "m", is_public |-> 0, order_num |-> 7]

\* data.groups: none; one; a group whose id is 0; two in either order; two of
\* one name; two of one id.
SnapshotGroupLists ==
    { <<>>,
      << ImportGroup(2, "a") >>,
      << ImportGroup(0, "b") >>,
      << ImportGroup(1, "a"), ImportGroup(2, "b") >>,
      << ImportGroup(2, "b"), ImportGroup(1, "a") >>,
      << ImportGroup(1, "b"), ImportGroup(2, "b") >>,
      << ImportGroup(1, "a"), ImportGroup(1, "b") >> }

\* data.sites: none; one; the same (group, url) twice; two groups' sites; a
\* site of a group the snapshot does not hold and a site of group 0, then one
\* of a group it may hold.
SnapshotSiteLists ==
    { <<>>,
      << ImportSite(2, "u") >>,
      << ImportSite(1, "v"), ImportSite(1, "v") >>,
      << ImportSite(1, "u"), ImportSite(2, "u") >>,
      << ImportSite(3, "u"), ImportSite(0, "u"), ImportSite(2, "v") >> }

\* importData's argument: well-formed snapshots, snapshots without configs,
\* and snapshots without groups or without sites.
Snapshots ==
    { [groups |-> gs, sites |-> ss, configs |-> [k \in {"k"} |-> "2"]] :
          gs \in SnapshotGroupLists, ss \in SnapshotSiteLists }
    \cup { [groups |-> gs, sites |-> ss] :
               gs \in {<<>>, << ImportGroup(1, "a"), ImportGroup(2, "b") >>},
               ss \in {<<>>, << ImportSite(2, "u") >>} }
    \cup { [sites |-> <<>>, configs |-> <<>>], [groups |-> <<>>, configs |-> <<>>] }

\* The snapshots of the runs that exercise the whole interface.
FewSnapshots ==
    { [groups |-> << ImportGroup(1, "a"), ImportGroup(2, "b") >>,
       sites |-> << ImportSite(1, "u"), ImportSite(2, "u") >>,
       configs |-> [k \in {"k"} |-> "2"]],
      [groups |-> << ImportGroup(2, "a") >>, sites |-> << ImportSite(3, "u"), ImportSite(2, "v") >>,
       configs |-> <<>>],
      [groups |-> << ImportGroup(1, "b") >>, sites |-> << ImportSite(1, "u") >>],
      [sites |-> <<>>, configs |-> <<>>] }

\* ---------------------------------------------------------------- queries
\* What getGroups returns (lines 135-139).
getGroupsValue ==
    IF ~isAuthenticated
    THEN SelectSeq(mockGroups, LAMBDA g : g.is_public = 1)
    ELSE mockGroups

\* What getGroupsWithSites returns (lines 146-164): each group with its sites.
getGroupsWithSitesValue ==
    LET groups == IF ~isAuthenticated
                  THEN SelectSeq(mockGroups, LAMBDA g : g.is_public = 1)
                  ELSE mockGroups
        publicGroupIds == {groups[i].id : i \in 1..Len(groups)}
        sites == IF ~isAuthenticated
                 THEN SelectSeq(mockSites,
                             LAMBDA site : site.is_public = 1 /\ site.group_id \in publicGroupIds)
                 ELSE mockSites
    IN [i \in 1..Len(groups) |->
           Spread(groups[i],
                  [sites |-> SelectSeq(sites, LAMBDA site : site.group_id = groups[i].id)])]

\* What getSites(groupId) returns (lines 216-233); groupId 0 is no groupId.
getSitesValue(groupId) ==
    LET publicGroupIds ==
            {mockGroups[i].id : i \in {j \in 1..Len(mockGroups) : mockGroups[j].is_public = 1}}
        sites == IF ~isAuthenticated
                 THEN SelectSeq(mockSites,
                             LAMBDA site : site.is_public = 1 /\ site.group_id \in publicGroupIds)
                 ELSE mockSites
    IN IF groupId # 0
       THEN SelectSeq(sites, LAMBDA site : site.group_id = groupId)
       ELSE sites

getGroups ==
    /\ ret' = Returned("getGroups", <<>>, "value", getGroupsValue, {})
    /\ UNCHANGED <<mockGroups, mockSites, mockConfigs, storage, storageFull, isAuthenticated, now, calls>>

getGroupsWithSites ==
    /\ ret' = Returned("getGroupsWithSites", <<>>, "value", getGroupsWithSitesValue, {})
    /\ UNCHANGED <<mockGroups, mockSites, mockConfigs, storage, storageFull, isAuthenticated, now, calls>>

getSites(groupId) ==
    /\ ret' = Returned("getSites", groupId, "value", getSitesValue(groupId), {})
    /\ UNCHANGED <<mockGroups, mockSites, mockConfigs, storage, storageFull, isAuthenticated, now, calls>>

\* getGroup(id): mockGroups.find((g) => g.id === id) || null
getGroup(id) ==
    LET index == FindIndex({i \in 1..Len(mockGroups) : mockGroups[i].id = id})
    IN /\ ret' = IF index = 0
                 THEN Returned("getGroup", id, "null", <<>>, {})
                 ELSE Returned("getGroup", id, "value", mockGroups[index], {})
       /\ UNCHANGED <<mockGroups, mockSites, mockConfigs, storage, storageFull, isAuthenticated, now, calls>>

\* getSite(id): mockSites.find((s) => s.id === id) || null
getSite(id) ==
    LET index == FindIndex({i \in 1..Len(mockSites) : mockSites[i].id = id})
    IN /\ ret' = IF index = 0
                 THEN Returned("getSite", id, "null", <<>>, {})
                 ELSE Returned("getSite", id, "value", mockSites[index], {})
       /\ UNCHANGED <<mockGroups, mockSites, mockConfigs, storage, storageFull, isAuthenticated, now, calls>>

\* What exportData returns: copies of the three collections, the version and
\* the export date.
exportDataValue ==
    [groups |-> mockGroups, sites |-> mockSites, configs |-> mockConfigs,
     version |-> "1.0", exportDate |-> now]

exportData ==
    /\ ret' = Returned("exportData", <<>>, "value", exportDataValue, {})
    /\ UNCHANGED <<mockGroups, mockSites, mockConfigs, storage, storageFull, isAuthenticated, now, calls>>

\* ------------------------------------------------------ overlapping calls
\* Every method is `async`, starts with
\*     await new Promise((resolve) => setTimeout(resolve, ms))
\* and holds no other await.  A call in flight is at "delay" (suspended at
\* that await) or inside its body: importData before its site loop ("sites"),
\* before Object.entries(data.configs) ("configs"), before its three saves
\* ("save"); updateGroupOrder and updateSiteOrder inside the for loop ("loop").

\* The calls, as if each phase of importData and each turn of the order
\* loops were followed by an await.
Suspended_BetweenPhases(call) == call.pc \in {"delay", "sites", "configs", "save", "loop"}

\* The call is suspended at an await.
Suspended(call) == call.pc = "delay"

\* Calls that run on threads of their own.
CanRun_Uncoordinated(c) == TRUE

\* The one JavaScript thread runs the code of caller c's call only while
\* every other call in flight is suspended.
CanRun(c) == \A d \in Callers \ {c} : calls[d].pc = "idle" \/ Suspended(calls[d])

AsyncReads == {"getGroups", "getSites", "getGroupsWithSites", "exportData"}

\* The calls that overlap: the reads of everything, importData, the two order updates.
AsyncCalls ==
    {[op |-> op, arg |-> <<>>] : op \in AsyncReads}
    \cup {[op |-> "importData", arg |-> data] : data \in FewSnapshots}
    \cup {[op |-> op, arg |-> orders] :
              op \in {"updateGroupOrder", "updateSiteOrder"}, orders \in OrderLists}

\* The caller calls the method: the call runs to its first line and waits
\* for the timer.
invoke(c, call) ==
    /\ calls[c].pc = "idle"
    /\ calls' = [calls EXCEPT ![c] = [pc |-> "delay", op |-> call.op, arg |-> call.arg,
                                      local |-> <<>>]]
    /\ UNCHANGED <<mockGroups, mockSites, mockConfigs, storage, storageFull,
                   isAuthenticated, now, ret>>

\* What a read of AsyncReads returns.
AsyncReadValue(op) ==
    CASE op = "getGroups" -> getGroupsValue
      [] op = "getSites" -> getSitesValue(0)
      [] op = "getGroupsWithSites" -> getGroupsWithSitesValue
      [] op = "exportData" -> exportDataValue

\* The timer of a read fires: the rest of the method runs and returns.
resumeRead(c) ==
    /\ calls[c].pc = "delay"
    /\ calls[c].op \in AsyncReads
    /\ CanRun(c)
    /\ ret' = Returned(calls[c].op, <<>>, "value", AsyncReadValue(calls[c].op), {})
    /\ calls' = [calls EXCEPT ![c] = Idle]
    /\ UNCHANGED <<mockGroups, mockSites, mockConfigs, storage, storageFull,
                   isAuthenticated, now>>

\* The catch block of importData ends the call.
importCaught(c) ==
    LET r == ImportReturn([thrown |-> TRUE, stats |-> <<>>])
    IN /\ ret' = Returned("importData", calls[c].arg, r.kind, r.out, {})
       /\ calls' = [calls EXCEPT ![c] = Idle]
       /\ now' = now + 1

\* The timer of importData fires: lines 357-407, the statistics and the group loop.
importGroups(c) ==
    LET data == calls[c].arg
        g == ImportGroupPhase([groups |-> mockGroups, groupMap |-> <<>>,
                               created |-> 0, merged |-> 0], data.groups)
    IN /\ calls[c].pc = "delay"
       /\ calls[c].op = "importData"
       /\ CanRun(c)
       /\ IF ~({"groups", "sites"} \subseteq DOMAIN data)
          THEN /\ importCaught(c)
               /\ UNCHANGED mockGroups
          ELSE /\ mockGroups' = g.groups
               /\ calls' = [calls EXCEPT ![c].pc = "sites",
                                         ![c].local = [groupMap |-> g.groupMap,
                                                       groups |-> [total |-> Len(data.groups),
                                                                   created |-> g.created,
                                                                   merged |-> g.merged]]]
               /\ UNCHANGED <<now, ret>>
       /\ UNCHANGED <<mockSites, mockConfigs, storage, storageFull, isAuthenticated>>

\* Lines 410-453, the site loop.
importSites(c) ==
    LET data == calls[c].arg
        s == ImportSitePhase([sites |-> mockSites, created |-> 0, updated |-> 0, skipped |-> 0],
                             calls[c].local.groupMap, data.sites)
    IN /\ calls[c].pc = "sites"
       /\ CanRun(c)
       /\ mockSites' = s.sites
       /\ calls' = [calls EXCEPT ![c].pc = "configs",
                                 ![c].local = Spread(calls[c].local,
                                                     [sites |-> [total |-> Len(data.sites),
                                                                 created |-> s.created,
                                                                 updated |-> s.updated,
                                                                 skipped |-> s.skipped]])]
       /\ UNCHANGED <<mockGroups, mockConfigs, storage, storageFull, isAuthenticated, now, ret>>

\* Lines 456-458, the configs.
importConfigs(c) ==
    LET data == calls[c].arg
    IN /\ calls[c].pc = "configs"
       /\ CanRun(c)
       /\ IF "configs" \notin DOMAIN data
          THEN /\ importCaught(c)
               /\ UNCHANGED mockConfigs
          ELSE /\ mockConfigs' = Spread(mockConfigs, data.configs)
               /\ calls' = [calls EXCEPT ![c].pc = "save"]
               /\ UNCHANGED <<now, ret>>
       /\ UNCHANGED <<mockGroups, mockSites, storage, storageFull, isAuthenticated>>

\* Lines 461-468, the three saves and the return.
importSaves(c) ==
    LET try == [thrown |-> FALSE, groups |-> mockGroups, sites |-> mockSites,
                configs |-> mockConfigs,
                stats |-> [groups |-> calls[c].local.groups, sites |-> calls[c].local.sites]]
        r == ImportReturn(try)
    IN /\ calls[c].pc = "save"
       /\ calls[c].op = "importData"
       /\ CanRun(c)
       /\ storage' = ImportSave(storage, try)
       /\ ret' = Returned("importData", calls[c].arg, r.kind, r.out,
                          {STORAGE_KEYS.GROUPS, STORAGE_KEYS.SITES, STORAGE_KEYS.CONFIGS})
       /\ calls' = [calls EXCEPT ![c] = Idle]
       /\ now' = now + 1
       /\ UNCHANGED <<mockGroups, mockSites, mockConfigs, storageFull, isAuthenticated>>

\* The entries of its argument that an order update has not reached yet.
Rest(call) == IF call.pc = "delay" THEN call.arg ELSE call.local

\* One turn of the for loop of updateGroupOrder (lines 287-292).
updateGroupOrderTurn(c) ==
    /\ calls[c].op = "updateGroupOrder"
    /\ calls[c].pc \in {"delay", "loop"}
    /\ CanRun(c)
    /\ Rest(calls[c]) # <<>>
    /\ mockGroups' = ApplyOrders(mockGroups, << Head(Rest(calls[c])) >>)
    /\ calls' = [calls EXCEPT ![c].pc = "loop", ![c].local = Tail(Rest(calls[c]))]
    /\ UNCHANGED <<mockSites, mockConfigs, storage, storageFull, isAuthenticated, now, ret>>

\* The save after the loop and the return (lines 294-295).
updateGroupOrderSave(c) ==
    /\ calls[c].op = "updateGroupOrder"
    /\ calls[c].pc \in {"delay", "loop"}
    /\ CanRun(c)
    /\ Rest(calls[c]) = <<>>
    /\ storage' = saveToStorage(storage, STORAGE_KEYS.GROUPS, mockGroups)
    /\ ret' = Returned("updateGroupOrder", <<>>, "value", TRUE, {STORAGE_KEYS.GROUPS})
    /\ calls' = [calls EXCEPT ![c] = Idle]
    /\ now' = now + 1
    /\ UNCHANGED <<mockGroups, mockSites, mockConfigs, storageFull, isAuthenticated>>

\* One turn of the for loop of updateSiteOrder (lines 302-307).
updateSiteOrderTurn(c) ==
    /\ calls[c].op = "updateSiteOrder"
    /\ calls[c].pc \in {"delay", "loop"}
    /\ CanRun(c)
    /\ Rest(calls[c]) # <<>>
    /\ mockSites' = ApplyOrders(mockSites, << Head(Rest(calls[c])) >>)
    /\ calls' = [calls EXCEPT ![c].pc = "loop", ![c].local = Tail(Rest(calls[c]))]
    /\ UNCHANGED <<mockGroups, mockConfigs, storage, storageFull, isAuthenticated, now, ret>>

\* The save after the loop and the return (lines 309-310).
updateSiteOrderSave(c) ==
    /\ calls[c].op = "updateSiteOrder"
    /\ calls[c].pc \in {"delay", "loop"}
    /\ CanRun(c)
    /\ Rest(calls[c]) = <<>>
    /\ storage' = saveToStorage(storage, STORAGE_KEYS.SITES, mockSites)
    /\ ret' = Returned("updateSiteOrder", <<>>, "value", TRUE, {STORAGE_KEYS.SITES})
    /\ calls' = [calls EXCEPT ![c] = Idle]
    /\ now' = now + 1
    /\ UNCHANGED <<mockGroups, mockSites, mockConfigs, storageFull, isAuthenticated>>

\* ------------------------------------------------------------------- Next
\* The calls that change nothing but ret, and the environment.
Reads ==
    \/ login
    \/ logout
    \/ getGroups
    \/ getGroupsWithSites
    \/ \E groupId \in {0, 1, 2} : getSites(groupId)

\* The reads of one entity by its id, and the export of everything.
Lookups ==
    \/ login
    \/ logout
    \/ \E id \in IdArgs : getGroup(id)
    \/ \E id \in IdArgs : getSite(id)
    \/ exportData

Crud ==
    \/ \E group \in GroupInputs : createGroup(group)
    \/ \E id \in IdArgs, group \in GroupPatches : updateGroup(id, group)
    \/ \E id \in IdArgs : deleteGroup(id)
    \/ \E site \in SiteInputs : createSite(site)
    \/ \E id \in IdArgs, site \in SitePatches : updateSite(id, site)
    \/ \E id \in IdArgs : deleteSite(id)
    \/ \E groupOrders \in OrderLists : updateGroupOrder(groupOrders)
    \/ \E siteOrders \in OrderLists : updateSiteOrder(siteOrders)
    \/ \E key \in ConfigKeys, value \in ConfigValues : setConfig(key, value)
    \/ \E key \in ConfigKeys : deleteConfig(key)

\* The whole interface, with a few snapshots.
Next ==
    \/ Reads
    \/ storageFills
    \/ now <= MaxClock /\ Crud
    \/ now <= MaxClock /\ \E data \in FewSnapshots : importData(data)

Spec == Init /\ [][Next]_vars

\* The lookups by id and the export, on every store the other calls build.
NextLookup ==
    \/ Lookups
    \/ now <= MaxClock /\ Crud

SpecLookup == Init /\ [][NextLookup]_vars

\* Calls of two callers in flight at once.
NextAsync ==
    \/ now <= MaxClock /\ \E c \in Callers, call \in AsyncCalls : invoke(c, call)
    \/ \E c \in Callers : resumeRead(c)
    \/ \E c \in Callers : importGroups(c)
    \/ \E c \in Callers : importSites(c)
    \/ \E c \in Callers : importConfigs(c)
    \/ \E c \in Callers : importSaves(c)
    \/ \E c \in Callers : updateGroupOrderTurn(c)
    \/ \E c \in Callers : updateGroupOrderSave(c)
    \/ \E c \in Callers : updateSiteOrderTurn(c)
    \/ \E c \in Callers : updateSiteOrderSave(c)

SpecAsync == Init /\ [][NextAsync]_vars

\* The import-merge on every snapshot of Snapshots, from clean stores and
\* from stores with a dangling site or with duplicates, and after a deleteGroup.
NextImport ==
    \/ storageFills
    \/ now <= MaxClock /\ \E data \in Snapshots : importData(data)
    \/ now <= MaxClock /\ \E id \in IdArgs : deleteGroup(id)

SpecImport == InitImport /\ [][NextImport]_vars

\* ================================================================= claims
\* The last call was importData and it returned (did not raise).
ImportReturned == ret.op = "importData" /\ ret.kind = "value"

\* A step of the run is a call of importData.
ImportCall == ret'.op = "importData" /\ now' = now + 1

\* Live group names are pairwise distinct.
GroupNamesDistinct ==
    \A i, j \in 1..Len(mockGroups) : i # j => mockGroups[i].name # mockGroups[j].name

\* Live sites of one group_id have pairwise distinct urls.
SiteKeysDistinct ==
    \A i, j \in 1..Len(mockSites) :
        i # j /\ mockSites[i].group_id = mockSites[j].group_id
            => mockSites[i].url # mockSites[j].url

\* C1: in every state reachable by the create, update, delete, reorder and
\* import operations from a store with distinct group names and distinct
\* (group_id, url) pairs, no two live groups have the same name and no two
\* live sites of one group_id have the same url.
C1_IdentityInvariant == GroupNamesDistinct /\ SiteKeysDistinct

\* C2: importData never produces a duplicate: a call of importData (whatever
\* the snapshot, also one that repeats a group name or a (group, url) pair,
\* and whether it succeeds or fails) that starts with distinct group names and
\* distinct (group_id, url) pairs ends with them distinct.
C2_ImportKeepsIdentity ==
    [][ImportCall /\ GroupNamesDistinct /\ SiteKeysDistinct
           => GroupNamesDistinct' /\ SiteKeysDistinct']_vars

\* C2's case: on the empty store, a snapshot with two groups of one name and
\* twice the same site has been imported: one group and one site exist.
C2_Witness ==
    /\ ImportReturned
    /\ ret.out.success
    /\ ret.arg.groups = << ImportGroup(1, "b"), ImportGroup(2, "b") >>
    /\ ret.arg.sites = << ImportSite(1, "v"), ImportSite(1, "v") >>
    /\ ret.out.stats.groups.created = 1 /\ ret.out.stats.groups.merged = 1
    /\ ret.out.stats.sites.created = 1 /\ ret.out.stats.sites.updated = 1
    /\ Len(mockGroups) = 1 /\ Len(mockSites) = 1

\* C3: whenever importData has returned, every live site has the id of a
\* live group as its group_id.
C3_ReferenceIntegrity ==
    ImportReturned =>
        \A i \in 1..Len(mockSites) :
            \E j \in 1..Len(mockGroups) : mockGroups[j].id = mockSites[i].group_id

\* C4: for every importData that returns success, groups.created +
\* groups.merged is the number of groups of the snapshot and sites.created +
\* sites.updated + sites.skipped is its number of sites.
C4_StatsConservation ==
    ImportReturned /\ ret.out.success =>
        /\ ret.out.stats.groups.created + ret.out.stats.groups.merged = Len(ret.arg.groups)
        /\ ret.out.stats.sites.created + ret.out.stats.sites.updated
               + ret.out.stats.sites.skipped = Len(ret.arg.sites)

\* C4's case: one import that created a group, merged a group, skipped a site
\* and created or updated another.
C4_Witness ==
    /\ ImportReturned
    /\ ret.out.success
    /\ ret.out.stats.groups.created >= 1 /\ ret.out.stats.groups.merged >= 1
    /\ ret.out.stats.sites.skipped >= 1
    /\ ret.out.stats.sites.created + ret.out.stats.sites.updated >= 1

\* C5: when an importData that returned success with sites.skipped = 0 is
\* followed, with no call in between, by importData of the same snapshot, the
\* second returns success with groups.created = 0, groups.merged =
\* groups.total, sites.created = 0 and sites.updated = sites.total.
C5_SecondImportMergesAll ==
    [][(/\ ImportReturned
        /\ ret.out.success
        /\ ret.out.stats.sites.skipped = 0
        /\ ImportCall
        /\ ret'.arg = ret.arg)
           => /\ ret'.kind = "value"
              /\ ret'.out.success
              /\ ret'.out.stats.groups.created = 0
              /\ ret'.out.stats.groups.merged = ret'.out.stats.groups.total
              /\ ret'.out.stats.groups.total = Len(ret.arg.groups)
              /\ ret'.out.stats.sites.created = 0
              /\ ret'.out.stats.sites.updated = ret'.out.stats.sites.total
              /\ ret'.out.stats.sites.total = Len(ret.arg.sites)]_vars

\* C5's case: the second of two calls is an import of two groups and two
\* sites that the first call, an import into the empty store, created.
C5_Witness ==
    /\ ImportReturned
    /\ ret.out.success
    /\ now = 3
    /\ ret.arg.groups = << ImportGroup(1, "a"), ImportGroup(2, "b") >>
    /\ ret.arg.sites = << ImportSite(1, "u"), ImportSite(2, "u") >>
    /\ Len(mockGroups) = 2 /\ Len(mockSites) = 2
    /\ \A i \in 1..2 : mockGroups[i].created_at = 1 /\ mockGroups[i].order_num = 7
    /\ \A i \in 1..2 : /\ mockSites[i].created_at = 1
                       /\ mockSites[i].updated_at = 2
                       /\ mockSites[i].group_id = i
    /\ ret.out.stats.groups.merged = 2
    /\ ret.out.stats.sites.updated = 2

\* C6: an unauthenticated getGroups, getGroupsWithSites or getSites returns
\* only public groups and only public sites whose group_id is the id of a live
\* public group; an authenticated one returns every live group and every live
\* site (getSites: when called without a groupId).
C6_ListVisibility ==
    LET publicGroupIds ==
            {mockGroups[i].id : i \in {j \in 1..Len(mockGroups) : mockGroups[j].is_public = 1}}
        SiteVisible(site) == site.is_public = 1 /\ site.group_id \in publicGroupIds
        out == ret.out
    IN /\ ret.op = "getGroups" =>
            IF ~isAuthenticated
            THEN \A i \in 1..Len(out) : out[i].is_public = 1
            ELSE \A j \in 1..Len(mockGroups) : \E i \in 1..Len(out) : out[i] = mockGroups[j]
       /\ ret.op = "getGroupsWithSites" =>
            IF ~isAuthenticated
            THEN \A i \in 1..Len(out) :
                    /\ out[i].is_public = 1
                    /\ \A k \in 1..Len(out[i].sites) : SiteVisible(out[i].sites[k])
            ELSE /\ \A j \in 1..Len(mockGroups) : \E i \in 1..Len(out) : out[i].id = mockGroups[j].id
                 /\ \A j \in 1..Len(mockSites) :
                        \E i \in 1..Len(out) : \E k \in 1..Len(out[i].sites) :
                            out[i].sites[k] = mockSites[j]
       /\ ret.op = "getSites" =>
            IF ~isAuthenticated
            THEN \A i \in 1..Len(out) : SiteVisible(out[i])
            ELSE ret.arg = 0 => \A j \in 1..Len(mockSites) : \E i \in 1..Len(out) : out[i] = mockSites[j]

\* The unauthenticated half of C6 alone, which the code keeps.
ListVisibilityUnauthenticated == isAuthenticated \/ C6_ListVisibility

\* C7: importData never raises past its caller: whatever the snapshot (also
\* one without groups, sites or configs), the call ends with
\* {success: true, stats} or with {success: false, error}.
C7_ImportNeverRaises ==
    ret.op = "importData" =>
        /\ ret.kind = "value"
        /\ \/ ret.out.success /\ DOMAIN ret.out = {"success", "stats"}
           \/ ~ret.out.success /\ DOMAIN ret.out = {"success", "error"}

\* C7's case: a snapshot without groups has been imported and the call
\* returned a failure.
C7_Witness ==
    /\ ImportReturned
    /\ "groups" \notin DOMAIN ret.arg
    /\ ~ret.out.success

\* An importData failed after its loops had run over a snapshot that holds
\* groups or sites.
ImportFailedAfterWork ==
    /\ ImportReturned
    /\ ~ret.out.success
    /\ {"groups", "sites"} \subseteq DOMAIN ret.arg
    /\ Len(ret.arg.groups) + Len(ret.arg.sites) > 0

\* C8 as stated: the failure result of an importData that failed after groups
\* or sites had been merged carries statistics that account for the groups
\* and sites processed so far.
C8_FailureCarriesStats ==
    ImportFailedAfterWork =>
        /\ "stats" \in DOMAIN ret.out
        /\ ret.out.stats.groups.created + ret.out.stats.groups.merged = Len(ret.arg.groups)
        /\ ret.out.stats.sites.created + ret.out.stats.sites.updated
               + ret.out.stats.sites.skipped = Len(ret.arg.sites)

\* C8 as amended: the failure result of importData, also of one that failed
\* after groups or sites had been merged, holds success: false and an error
\* message and nothing else: it carries no statistics.
C8_FailureCarriesNoStats ==
    ImportReturned /\ ~ret.out.success => DOMAIN ret.out = {"success", "error"}

\* C8's case: an import without configs failed after it had created a group
\* and a site, which are live.
C8_Witness ==
    /\ ImportFailedAfterWork
    /\ \E i \in 1..Len(mockGroups) :
           mockGroups[i].created_at = now - 1 /\ mockGroups[i].order_num = 7
    /\ \E i \in 1..Len(mockSites) :
           mockSites[i].created_at = now - 1 /\ mockSites[i].order_num = 7

\* The call that left r returned success.
Succeeded(r) ==
    CASE r.op \in {"createGroup", "createSite"} -> TRUE
      [] r.op \in {"updateGroup", "updateSite"} -> r.kind = "value"
      [] r.op \in {"deleteGroup", "deleteSite", "updateGroupOrder", "updateSiteOrder",
                   "setConfig", "deleteConfig"} -> r.out = TRUE
      [] r.op = "importData" -> r.kind = "value" /\ r.out.success
      [] OTHER -> FALSE

\* C9: when a call of a mutating operation returns success, the persisted
\* copy of every collection the call changed equals the collection in memory.
C9_PersistedBeforeSuccess ==
    [][now' = now + 1 /\ Succeeded(ret')
           => /\ mockGroups' # mockGroups => storage'.mock_groups = mockGroups'
              /\ mockSites' # mockSites => storage'.mock_sites = mockSites'
              /\ mockConfigs' # mockConfigs => storage'.mock_configs = mockConfigs']_vars

\* A step is updateGroup or deleteGroup with an id no live group has, or
\* updateSite or deleteSite with an id no live site has.
NotFoundCall ==
    /\ now' = now + 1
    /\ \/ /\ ret'.op \in {"updateGroup", "deleteGroup"}
          /\ \A i \in 1..Len(mockGroups) : mockGroups[i].id # ret'.arg
       \/ /\ ret'.op \in {"updateSite", "deleteSite"}
          /\ \A i \in 1..Len(mockSites) : mockSites[i].id # ret'.arg

\* C10: updateGroup/updateSite on an id that is not live return null and
\* deleteGroup/deleteSite on such an id return false, without raising,
\* without changing a collection in memory and without a storage write.
C10_NotFoundIsNoOp ==
    [][NotFoundCall
           => /\ IF ret'.op \in {"updateGroup", "updateSite"}
                 THEN ret'.kind = "null"
                 ELSE ret'.kind = "value" /\ ret'.out = FALSE
              /\ UNCHANGED <<mockGroups, mockSites, mockConfigs, storage>>
              /\ ret'.wrote = {}]_vars

\* C10's case: deleteGroup has been called with an id that no group of the
\* non-empty store has.
C10_Witness ==
    /\ ret.op = "deleteGroup"
    /\ ret.out = FALSE
    /\ mockGroups # <<>>
    /\ \A i \in 1..Len(mockGroups) : mockGroups[i].id # ret.arg
    /\ ~storageFull

\* The ids of a collection are pairwise distinct.
IdsDistinct(arr) == \A i, j \in 1..Len(arr) : i # j => arr[i].id # arr[j].id

\* Every entity that a step appended to `old` has the greatest id before it
\* plus one as its id, or 1 when nothing is before it.
IdsFresh(old, new) ==
    \A k \in (Len(old) + 1)..Len(new) :
        LET before == {new[i].id : i \in 1..(k - 1)}
        IN IF before = {} THEN new[k].id = 1
           ELSE (new[k].id - 1) \in before /\ \A x \in before : x < new[k].id

\* A step that removed nothing left every entity its id.
IdsKept(old, new) ==
    Len(new) >= Len(old) => \A i \in 1..Len(old) : new[i].id = old[i].id

\* C11: every group or site that createGroup, createSite or importData
\* creates gets the greatest id of its collection plus one (1 in an empty
\* collection); the ids of each collection stay pairwise distinct; and no
\* operation, updateGroup and updateSite with any partial record included,
\* changes the id of a live entity.
C11_SurrogateIds ==
    [][/\ IdsDistinct(mockGroups') /\ IdsDistinct(mockSites')
       /\ IdsFresh(mockGroups, mockGroups') /\ IdsFresh(mockSites, mockSites')
       /\ IdsKept(mockGroups, mockGroups') /\ IdsKept(mockSites, mockSites')]_vars

\* C18: for a client that is not authenticated, getGroup(id) returns no
\* group that is not public, getSite(id) returns no site that is not public
\* or whose group is not a live public group, and exportData returns no
\* group and no site that is not public.
C18_LookupVisibility ==
    (~isAuthenticated /\ ret.kind = "value") =>
        /\ ret.op = "getGroup" => ret.out.is_public = 1
        /\ ret.op = "getSite" =>
               /\ ret.out.is_public = 1
               /\ \E i \in 1..Len(mockGroups) :
                      mockGroups[i].id = ret.out.group_id /\ mockGroups[i].is_public = 1
        /\ ret.op = "exportData" =>
               /\ \A i \in 1..Len(ret.out.groups) : ret.out.groups[i].is_public = 1
               /\ \A i \in 1..Len(ret.out.sites) : ret.out.sites[i].is_public = 1

\* The call is inside its body: past its delay and not yet returned.
MidBody(call) == call.pc \notin {"idle", "delay"}

\* Caller c's call returns in this step.
Returns(c) == calls[c].pc # "idle" /\ calls'[c].pc = "idle"

\* C12: with calls in flight at once, each suspended only at its initial
\* delay, a read (getGroups, getSites, getGroupsWithSites, exportData) returns
\* and a call writes to storage only while no other call is inside its body,
\* and the writing call itself has then applied all its phases (importData
\* is at its saves) or its whole batch (the order update has no entry left).
C12_NoPartialStateObserved ==
    [][\A c \in Callers :
           (Returns(c) /\ (calls[c].op \in AsyncReads \/ ret'.wrote # {})) =>
               /\ \A d \in Callers \ {c} : ~MidBody(calls[d])
               /\ calls[c].op = "importData" => calls[c].pc = "save"
               /\ calls[c].op \in {"updateGroupOrder", "updateSiteOrder"} =>
                      Rest(calls[c]) = <<>>]_vars

\* A read returned while an importData of the other caller was in flight,
\* after an earlier call had changed the store.
C12_Witness ==
    /\ ret.op \in AsyncReads
    /\ now > 1
    /\ \E d \in Callers : calls[d].op = "importData" /\ calls[d].pc = "delay"

\* C13 as stated: overlapping importData calls are not coordinated, so while
\* one importData is between its phases the other, waiting at its delay, can
\* start its own reads of the live collections.
C13_ImportsCanInterleave ==
    \A c, d \in Callers :
        (/\ c # d
         /\ calls[c].op = "importData" /\ MidBody(calls[c])
         /\ calls[d].op = "importData" /\ calls[d].pc = "delay")
        => ENABLED importGroups(d)

\* C13, amended: overlapping importData calls run one after the other; at
\* most one call is inside its body at a time, and from a store with
\* pairwise distinct group names the group names stay pairwise distinct.
C13_ImportsRunInTurn ==
    /\ \A c, d \in Callers : (MidBody(calls[c]) /\ MidBody(calls[d])) => c = d
    /\ GroupNamesDistinct

\* Two imports of one snapshot overlapped: the first has returned, having
\* created its groups, and the second, invoked before that, still waits.
C13_Witness ==
    /\ ret.op = "importData" /\ ret.kind = "value" /\ ret.out.success
    /\ ret.out.stats.groups.created > 0
    /\ \E d \in Callers : calls[d].op = "importData" /\ calls[d].pc = "delay"
                          /\ calls[d].arg = ret.arg

\* The first live group of a name (0 when there is none).
LiveGroupIndex(name) ==
    FindIndex({i \in 1..Len(mockGroups) : mockGroups[i].name = name})

\* The incoming groups of the last snapshot that carry the (non-zero) id.
Carriers(id) ==
    {j \in 1..Len(ret.arg.groups) : ret.arg.groups[j].id = id /\ id # 0}

\* The last of the incoming groups that carry the id: its groupMap entry stands.
LastCarrier(id) == CHOOSE j \in Carriers(id) : \A k \in Carriers(id) : k <= j

\* C14: after a successful importData, for every incoming site whose
\* group_id is the id of an incoming group, the live site the import created
\* or updated for it (its url, its name, the import's timestamp) has as
\* group_id the live id of the group that bears the name of that incoming
\* group, not the foreign id as such, whether that live group was there
\* before or was created by this import, and in whichever order the snapshot
\* lists its groups.  (Live ids are never 0 here; of several incoming groups
\* with one id the last counts, of several live groups of one name the first.)
C14_ForeignKeyRemapped ==
    (ImportReturned /\ ret.out.success) =>
        \A k \in 1..Len(ret.arg.sites) :
            LET site == ret.arg.sites[k]
            IN Carriers(site.group_id) # {} =>
                   LET name == ret.arg.groups[LastCarrier(site.group_id)].name
                       live == LiveGroupIndex(name)
                   IN /\ live > 0
                      /\ \E i \in 1..Len(mockSites) :
                             /\ mockSites[i].group_id = mockGroups[live].id
                             /\ mockSites[i].url = site.url
                             /\ mockSites[i].name = site.name
                             /\ mockSites[i].updated_at = now - 1

\* Into the empty store a snapshot lists group "b" (foreign id 2) before
\* group "a" (foreign id 1): "b" is created as live group 1, "a" as live
\* group 2, and the site of foreign group 1 lives under group 2.
C14_Witness ==
    /\ ImportReturned /\ ret.out.success
    /\ ret.arg.groups = << ImportGroup(2, "b"), ImportGroup(1, "a") >>
    /\ ret.arg.sites = << ImportSite(1, "u"), ImportSite(2, "u") >>
    /\ ret.out.stats.groups.created = 2
    /\ mockGroups[2].name = "a" /\ mockGroups[2].id = 2
    /\ \E i \in 1..Len(mockSites) : mockSites[i].group_id = 2 /\ mockSites[i].updated_at = now - 1

\* The incoming site refers to no incoming group of its snapshot: no group
\* of data.groups has its group_id as id, or that id is 0.
Unresolved(data, site) ==
    \A j \in 1..Len(data.groups) :
        data.groups[j].id # site.group_id \/ site.group_id = 0

\* C15: in an importData of a well-formed snapshot, every incoming site
\* whose group_id is the id of no incoming group of the snapshot (a live
\* group may have that id), or is 0, is counted in sites.skipped, and no live
\* site is created or changed for it; the import goes on with the other
\* sites, counts every site once and returns success.
C15_UnresolvedSiteSkipped ==
    [][(ImportCall /\ {"groups", "sites", "configs"} \subseteq DOMAIN ret'.arg) =>
          LET data == ret'.arg
              stats == ret'.out.stats.sites
              unresolved == {k \in 1..Len(data.sites) : Unresolved(data, data.sites[k])}
              resolvedUrls == {data.sites[k].url : k \in (1..Len(data.sites)) \ unresolved}
          IN /\ ret'.kind = "value" /\ ret'.out.success
             /\ stats.skipped >= Cardinality(unresolved)
             /\ stats.created + stats.updated + stats.skipped = Len(data.sites)
             /\ Len(mockSites') = Len(mockSites) + stats.created
             /\ \A i \in 1..Len(mockSites') :
                    (i > Len(mockSites) \/ mockSites'[i] # mockSites[i])
                        => mockSites'[i].url \in resolvedUrls]_vars

\* A snapshot with group 2 only, and sites of group 3 (the id of a live
\* group), of group 0 and of group 2: two sites skipped, the third merged.
C15_Witness ==
    /\ ImportReturned /\ ret.out.success
    /\ ret.arg.groups = << ImportGroup(2, "a") >>
    /\ ret.arg.sites = << ImportSite(3, "u"), ImportSite(0, "u"), ImportSite(2, "v") >>
    /\ ret.out.stats.sites.skipped = 2
    /\ ret.out.stats.sites.created + ret.out.stats.sites.updated = 1
    /\ \E i \in 1..Len(mockGroups) : mockGroups[i].id = 3

\* C16: an importData changes no field of a live group, so a live group
\* that an incoming group matches by name stays as it was; and of a live
\* site it changes at most name, icon, description, notes and updated_at, so
\* a live site that an incoming site matches by (live group id, url) keeps
\* its id, group_id, url, is_public, order_num and created_at.
C16_MergeFrame ==
    [][ImportCall =>
          /\ Len(mockGroups') >= Len(mockGroups)
          /\ \A i \in 1..Len(mockGroups) : mockGroups'[i] = mockGroups[i]
          /\ Len(mockSites') >= Len(mockSites)
          /\ \A i \in 1..Len(mockSites) :
                 \A f \in {"id", "group_id", "url", "is_public", "order_num", "created_at"} :
                     mockSites'[i][f] = mockSites[i][f]]_vars

\* An import merged a group and updated a seeded site: the site bears the
\* incoming name and the import's timestamp, and its own is_public,
\* order_num and created_at, which differ from the incoming site's.
C16_Witness ==
    /\ ImportReturned /\ ret.out.success
    /\ ret.out.stats.groups.merged >= 1
    /\ ret.out.stats.sites.updated >= 1
    /\ \E i \in 1..Len(mockSites) :
           /\ mockSites[i].name = "y" /\ mockSites[i].updated_at = now - 1
           /\ mockSites[i].created_at = 0 /\ mockSites[i].is_public = 1
           /\ mockSites[i].order_num = 0

\* C17: every operation that changes a field of a live group or site
\* (updateGroup, updateSite, updateGroupOrder, updateSiteOrder, a site update
\* of importData) sets the updated_at of that entity to the time of the
\* operation: an entity that a step changed bears the clock of that step.
C17_UpdatedAtRefreshed ==
    [][/\ Len(mockGroups') >= Len(mockGroups) =>
              \A i \in 1..Len(mockGroups) :
                  mockGroups'[i] # mockGroups[i] => mockGroups'[i].updated_at = now
       /\ Len(mockSites') >= Len(mockSites) =>
              \A i \in 1..Len(mockSites) :
                  mockSites'[i] # mockSites[i] => mockSites'[i].updated_at = now]_vars

\* C19: at the moment createGroup or importData creates a group, no live
\* site has the id of the new group as group_id; sites that deleteGroup left
\* behind are not taken over by a later group that gets the id of the
\* deleted one.
C19_NewGroupStartsEmpty ==
    [][\A k \in (Len(mockGroups) + 1)..Len(mockGroups') :
           \A i \in 1..Len(mockSites) : mockSites[i].group_id # mockGroups'[k].id]_vars

\* What is in memory under a storage key.
InMemory(key, groups, sites, configs) ==
    CASE key = STORAGE_KEYS.GROUPS -> groups
      [] key = STORAGE_KEYS.SITES -> sites
      [] key = STORAGE_KEYS.CONFIGS -> configs

\* C20: an importData that returns success: false after its group and site
\* loops is not rolled back and not persisted: every incoming group is a live
\* group by name and every incoming site that refers to an incoming group is
\* a live site with the import's timestamp; the call writes nothing to
\* storage, which stays as it was before the import, so that each collection
\* the import changed differs from its persisted copy.  A later call that
\* saves a collection (storage accepting the write) brings that copy to the
\* collection in memory.
C20_FailedImportKeptNotPersisted ==
    [][/\ (/\ ImportCall
           /\ ret'.kind = "value" /\ ~ret'.out.success
           /\ {"groups", "sites"} \subseteq DOMAIN ret'.arg) =>
              LET data == ret'.arg
              IN /\ \A j \in 1..Len(data.groups) :
                        \E i \in 1..Len(mockGroups') : mockGroups'[i].name = data.groups[j].name
                 /\ \A k \in 1..Len(data.sites) :
                        ~Unresolved(data, data.sites[k]) =>
                            \E i \in 1..Len(mockSites') :
                                /\ mockSites'[i].url = data.sites[k].url
                                /\ mockSites'[i].name = data.sites[k].name
                                /\ mockSites'[i].updated_at = now
                 /\ ret'.wrote = {}
                 /\ storage' = storage
                 /\ mockGroups' # mockGroups => storage'.mock_groups # mockGroups'
                 /\ mockSites' # mockSites => storage'.mock_sites # mockSites'
       /\ (now' = now + 1 /\ ~storageFull) =>
              \A key \in ret'.wrote :
                  storage'[key] = InMemory(key, mockGroups', mockSites', mockConfigs')]_vars

\* A failed import left a new group and a new site in memory while storage,
\* which takes writes, still holds the collections without them.
C20_Witness ==
    /\ ImportFailedAfterWork
    /\ ~storageFull
    /\ Len(mockGroups) > Len(storage.mock_groups)
    /\ Len(mockSites) > Len(storage.mock_sites)

====
